---- MODULE Spec2Model ----
(***************************************************************************)
(* Model of the training glue of the Carver repository:                    *)
(*   - PiGANLoss (runners/losses/pigan_loss.py): batch-split forward       *)
(*     passes run_G / run_D and their use by d_loss / g_loss;              *)
(*   - KIDMetric (metrics/kid.py) and GANSnapshotMultiView                 *)
(*     (metrics/gan_snapshot_multiview.py) run by several replicas that    *)
(*     meet at sync() barriers and share one cache directory;              *)
(*   - the pure helpers (effective real_num, _is_better_than).             *)
(* Three specifications share the module: SpecLoss, SpecMetric, SpecPure.  *)
(***************************************************************************)
EXTENDS Integers, Sequences, FiniteSets, TLC

\* ------------------------------------------------------------------ bounds
MaxBatch == 4
MaxSplit == 3
MaxLabelDim == 2
WorldSize == 2       \* number of replicas
MaxData == 2         \* len(data_loader.dataset)
MaxLoaderLen == 2    \* len(data_loader)
MaxLoaderBatch == 2  \* data_loader.batch_size
MaxFake == 4         \* fake_num / latent_num
MaxMetricBatch == 2  \* the metric's batch_size
MaxScore == 2        \* metric values range over -MaxScore..MaxScore
MaxGamma == 2        \* r1_gamma / r2_gamma range over -1..MaxGamma
MaxScale == 3        \* the loss scale of an enabled scaler: 1..MaxScale
MaxGrad == 2         \* gradient components range over -MaxGrad..MaxGrad
MaxSamples == 2      \* samples of a batch handed to compute_grad_penalty
MaxSize == 8         \* image height and width: 1..MaxSize
MaxLod == 3          \* lod ranges up to MaxLod
LodDen == 2          \* lod is a multiple of 1 / LodDen
MaxVary == 1         \* alternative values tried for one command-line option

\* ------------------------------------------------------------ loss state
VARIABLES
    runner,      \* runner.batch_size, batch_split (self.batch_split), label_dim,
                 \* r1_gamma, r2_gamma (self.*), amp_scaler
    op,          \* the entry point under way: none, run_G, run_D, d_loss, g_loss
    stage,       \* position of d_loss / g_loss: number of the inner call under way
    lpc,         \* position inside the entry point
    args,        \* arguments of the run_G / run_D call under way
    callerSync,  \* the `sync` argument of d_loss / g_loss
    batch_size,  \* local batch_size of run_G / run_D
    split_batch_size,
    batch_idx,   \* loop variable of run_G / run_D
    latents,     \* local latents of run_G
    labels,      \* local labels of run_G
    results,     \* local results of run_G / run_D
    calls,       \* every forward pass made so far, in order
    base,        \* Len(calls) when the run_G / run_D call under way was entered
    ret,         \* what the run_G / run_D call under way returned (NotReturned before)
    locals,      \* d_loss / g_loss locals: real_scores, fake_results,
                 \* fake_pred_results, the penalties and the returned loss
    err          \* the exception that ended the entry point, or "none"

lossVars == <<runner, op, stage, lpc, args, callerSync, batch_size,
              split_batch_size, batch_idx, latents, labels, results, calls,
              base, ret, locals, err>>

\* ---------------------------------------------------------- metric state
VARIABLES
    metric,      \* the metric object: class, real_num, fake_num / latent_num,
                 \* batch_size, random_latents, random_labels, label_dim
    loader,      \* the data loader: len(dataset), batch_size, len(data_loader)
    mop,         \* the metric call all replicas are in: evaluate or save, and
                 \* the data loader / generator mode / tb_writer it is given
    cacheFiles,  \* names of the feature files in the cache directory
    cacheWrites, \* every np.save so far: who wrote which file, in this
                 \* evaluate call or an earlier one
    mpc,         \* each replica's position
    cont,        \* each replica's position after the barrier it waits at
    arrived,     \* each replica's number of sync() calls in the metric call
    opSyncs,     \* each replica's number of sync() calls in the current call
    training,    \* each replica's generator.training
    G_mode,      \* each replica's saved training mode
    entryMode,   \* each replica's generator.training at entry of the call
    loaderPos,   \* each replica's position in the data loader's pass
    nextCalls,   \* each replica's number of next(data_loader) in this call
    idx,         \* each replica's loop variable (batch_idx / start)
    view,        \* each replica's index into the 8 azimuthal angles
    draws,       \* each replica's draws so far from g1 and from g2
    batch,       \* each replica's batch_codes and batch_labels
    realHit,     \* each replica's outcome of os.path.exists(cache_path)
    features,    \* each replica's real_features and fake_features / images
    result,      \* each replica's result of evaluate
    forwards,    \* each replica's forward passes in this call, in order
    outputs,     \* each replica's file, log and TensorBoard writes, in order
    merr         \* each replica's exception, or "none"

metricVars == <<metric, loader, mop, cacheFiles, cacheWrites, mpc, cont,
                arrived, opSyncs, training, G_mode, entryMode, loaderPos,
                nextCalls, idx, view, draws, batch, realHit, features, result,
                forwards, outputs, merr>>

\* ------------------------------------------------- pure-function state
VARIABLES
    pureFn,      \* the function applied: none, real_num, better
    input,       \* its arguments
    output       \* its value ("pending" before it is applied)

pureVars == <<pureFn, input, output>>

nonLossVars == <<metricVars, pureVars>>
nonMetricVars == <<lossVars, pureVars>>
nonPureVars == <<lossVars, metricVars>>

vars == <<lossVars, metricVars, pureVars>>

\* ---------------------------------------------------------------- values
\* A Python value that is either None or a tensor (its rows, in order).
None == [t |-> "none", rows |-> <<>>]
Tensor(rows) == [t |-> "tensor", rows |-> rows]
IsTensor(v) == v.t = "tensor"

\* The empty dict.
EmptyDict == [k \in {} |-> None]

\* xs[lo:lo+n] of Python on a list of rows (0-based lo, clipped at the end).
PySlice(xs, lo, n) ==
    SubSeq(xs, lo + 1, IF lo + n > Len(xs) THEN Len(xs) ELSE lo + n)

\* F.one_hot(k, num_classes = n) for one sample.
OneHot(k, n) == [j \in 1..n |-> IF j = k + 1 THEN 1 ELSE 0]

\* Every way torch.randint(0, label_dim, (n,)) followed by F.one_hot can come
\* out: one one-hot row per sample.
SampledLabels(n, label_dim) ==
    { Tensor([i \in 1..n |-> OneHot(rnd[i], label_dim)]) :
        rnd \in [1..n -> 0..(label_dim - 1)] }

\* The value a call that has not returned has produced.
NotReturned == [k \in {"unset"} |-> None]

\* ------------------------------------------------- the wrapped networks
\* The generator's forward pass: one output row per latent row; the result
\* carries the image, the label it was given, and the latent and camera it used.
G_forward(latent, label) ==
    [k \in {"image", "label", "latent", "camera"} |->
        IF k = "label" THEN label ELSE Tensor(latent)]

\* The discriminator's forward pass on augmented images: one row per image.
D_forward(image, label) ==
    [k \in {"score", "latent", "camera"} |-> Tensor(image)]

\* ------------------------------------------------------ run_G and run_D
\* `assert batch_size % split == 0`
SplitAssertOff(n, split) == TRUE
SplitAssert(n, split) == n % split = 0

\* `batch_size = batch_size or runner.batch_size` (None and 0 are both falsy).
EffectiveBatch(arg) == IF arg = 0 THEN runner.batch_size ELSE arg

\* The merge of one call's result into the accumulated results.
MergeReplace(acc, val) ==
    [k \in (DOMAIN acc) \cup (DOMAIN val) |->
        IF k \in DOMAIN val THEN val[k] ELSE acc[k]]
MergeResults(acc, val) ==
    [k \in (DOMAIN acc) \cup (DOMAIN val) |->
        IF k \notin DOMAIN val THEN acc[k]
        ELSE IF k \notin DOMAIN acc THEN val[k]
        ELSE IF IsTensor(val[k])
             THEN Tensor(acc[k].rows \o val[k].rows)
             ELSE None]

\* The arguments of a run_G / run_D call; run_G reads batch_size (0: None),
\* run_D reads images and labels.
RunArgs(bs, images, lbls, sync, split) ==
    [batch_size |-> bs, images |-> images, labels |-> lbls,
     sync |-> sync, split |-> split]

\* A fresh frame for a run_G / run_D call.
EnterCall(which, a) ==
    /\ args' = a
    /\ lpc' = IF which = "G" THEN "G_enter" ELSE "D_enter"
    /\ base' = Len(calls)
    /\ ret' = NotReturned
    /\ latents' = None
    /\ labels' = None
    /\ results' = EmptyDict
    /\ batch_size' = 0
    /\ split_batch_size' = 0
    /\ batch_idx' = 0

\* run_G called directly.
CallRunG ==
    /\ op = "none"
    /\ \E bs \in 0..MaxBatch, sync \in BOOLEAN, split \in 1..MaxSplit :
          EnterCall("G", RunArgs(bs, None, None, sync, split))
    /\ op' = "run_G"
    /\ UNCHANGED <<runner, stage, callerSync, calls, locals, err, nonLossVars>>

\* The labels that come with n real images: none, or one row per image.
DataLabels(n) ==
    {None} \cup (IF runner.label_dim > 0
                 THEN SampledLabels(n, runner.label_dim) ELSE {})

\* n real images (tagged -1, -2, ... to tell them from generated ones).
RealImages(n) == Tensor([i \in 1..n |-> 0 - i])

\* run_D called directly on n images, with or without labels.
CallRunD ==
    /\ op = "none"
    /\ \E n \in 0..MaxBatch, sync \in BOOLEAN, split \in 1..MaxSplit :
          \E lbls \in DataLabels(n) :
             EnterCall("D", RunArgs(0, RealImages(n), lbls, sync, split))
    /\ op' = "run_D"
    /\ UNCHANGED <<runner, stage, callerSync, calls, locals, err, nonLossVars>>

\* run_G up to the loop: the batch size, the assertion, the sampling of the
\* latent codes and labels, and range(0, batch_size, split_batch_size).
RunG_Enter ==
    /\ lpc = "G_enter"
    /\ LET bsz == EffectiveBatch(args.batch_size)
           sbs == bsz \div args.split
       IN /\ batch_size' = bsz
          /\ IF ~SplitAssert(bsz, args.split)
             THEN /\ err' = "AssertionError"
                  /\ lpc' = "raised"
                  /\ UNCHANGED <<split_batch_size, latents, labels>>
             ELSE /\ split_batch_size' = sbs
                  /\ latents' = Tensor([i \in 1..bsz |-> i])
                  /\ IF runner.label_dim > 0
                     THEN labels' \in SampledLabels(bsz, runner.label_dim)
                     ELSE labels' = None
                  /\ IF sbs = 0
                     THEN err' = "ValueError" /\ lpc' = "raised"
                     ELSE err' = err /\ lpc' = "G_loop"
    /\ UNCHANGED <<runner, op, stage, args, callerSync, batch_idx, results,
                   calls, base, ret, locals, nonLossVars>>

\* `labels[batch_idx:batch_idx + split_batch_size] if labels is not None
\* else labels`
LabelSliceWhole(lbls, lo, n) == lbls
LabelSlice(lbls, lo, n) ==
    IF IsTensor(lbls) THEN Tensor(PySlice(lbls.rows, lo, n)) ELSE lbls

\* One iteration of run_G's loop: slice, forward, merge.
RunG_Step ==
    /\ lpc = "G_loop"
    /\ batch_idx < batch_size
    /\ LET latent == PySlice(latents.rows, batch_idx, split_batch_size)
           label == LabelSlice(labels, batch_idx, split_batch_size)
       IN /\ calls' = Append(calls, [model |-> "G", sync |-> args.sync,
                                     input |-> latent, label |-> label])
          /\ results' = MergeResults(results, G_forward(latent, label))
    /\ batch_idx' = batch_idx + split_batch_size
    /\ UNCHANGED <<runner, op, stage, lpc, args, callerSync, batch_size,
                   split_batch_size, latents, labels, base, ret, locals, err,
                   nonLossVars>>

\* run_G returns its results.
RunG_Return ==
    /\ lpc = "G_loop"
    /\ batch_idx >= batch_size
    /\ ret' = results
    /\ lpc' = IF op = "run_G" THEN "done" ELSE "after"
    /\ UNCHANGED <<runner, op, stage, args, callerSync, batch_size,
                   split_batch_size, batch_idx, latents, labels, results,
                   calls, base, locals, err, nonLossVars>>

\* run_D up to the loop: the batch size, the assertion and the range.
RunD_Enter ==
    /\ lpc = "D_enter"
    /\ LET bsz == Len(args.images.rows)
           sbs == bsz \div args.split
       IN /\ batch_size' = bsz
          /\ IF ~SplitAssert(bsz, args.split)
             THEN /\ err' = "AssertionError"
                  /\ lpc' = "raised"
                  /\ UNCHANGED split_batch_size
             ELSE /\ split_batch_size' = sbs
                  /\ IF sbs = 0
                     THEN err' = "ValueError" /\ lpc' = "raised"
                     ELSE err' = err /\ lpc' = "D_loop"
    /\ UNCHANGED <<runner, op, stage, args, callerSync, batch_idx, latents,
                   labels, results, calls, base, ret, locals, nonLossVars>>

\* One iteration of run_D's loop: slice, augment and forward, merge.
RunD_Step ==
    /\ lpc = "D_loop"
    /\ batch_idx < batch_size
    /\ LET image == PySlice(args.images.rows, batch_idx, split_batch_size)
           label == IF IsTensor(args.labels)
                    THEN Tensor(PySlice(args.labels.rows, batch_idx,
                                        split_batch_size))
                    ELSE None
       IN /\ calls' = Append(calls, [model |-> "D", sync |-> args.sync,
                                     input |-> image, label |-> label])
          /\ results' = MergeResults(results, D_forward(image, label))
    /\ batch_idx' = batch_idx + split_batch_size
    /\ UNCHANGED <<runner, op, stage, lpc, args, callerSync, batch_size,
                   split_batch_size, latents, labels, base, ret, locals, err,
                   nonLossVars>>

\* run_D returns its results.
RunD_Return ==
    /\ lpc = "D_loop"
    /\ batch_idx >= batch_size
    /\ ret' = results
    /\ lpc' = IF op = "run_D" THEN "done" ELSE "after"
    /\ UNCHANGED <<runner, op, stage, args, callerSync, batch_size,
                   split_batch_size, batch_idx, latents, labels, results,
                   calls, base, locals, err, nonLossVars>>

\* ---------------------------------------------------- d_loss and g_loss
\* The sync flags d_loss and g_loss hand to run_D and run_G.
\* ------------------------------------------------- the gradient penalties
\* torch.cuda.amp.GradScaler: scale(x) multiplies by the scale when the
\* scaler is enabled and returns x otherwise; get_scale() is 1 when disabled.
Scaler(enabled, scale) == [enabled |-> enabled, scale |-> scale]
NoAmp == Scaler(FALSE, 1)
AmpScale(scaler, x) == IF scaler.enabled THEN x * scaler.scale ELSE x
GetScale(scaler) == IF scaler.enabled THEN scaler.scale ELSE 1

RECURSIVE SumSquares(_)
SumSquares(g) == IF g = <<>> THEN 0 ELSE g[1] * g[1] + SumSquares(Tail(g))

\* torch.autograd.grad of the sum of the scaled scores with respect to the
\* images: differentiation is linear, so it is the gradient of the unscaled
\* score sum (grads, one vector per sample) times the scaler's factor.
ScaledGrad(grads, scaler) ==
    [i \in 1..Len(grads) |->
        [j \in 1..Len(grads[i]) |-> AmpScale(scaler, grads[i][j])]]

\* `if amp_scaler.is_enabled(): image_grad = image_grad / get_scale()`
UnscaleSkipped(image_grad, scaler) == image_grad
Unscale(image_grad, scaler) ==
    IF scaler.enabled
    THEN [i \in 1..Len(image_grad) |->
            [j \in 1..Len(image_grad[i]) |->
                image_grad[i][j] \div GetScale(scaler)]]
    ELSE image_grad

\* compute_grad_penalty: the per-sample sum of squares of the image gradient.
ComputeGradPenalty(grads, scaler) ==
    LET image_grad == Unscale(ScaledGrad(grads, scaler), scaler)
    IN [i \in 1..Len(image_grad) |-> SumSquares(image_grad[i])]

\* The gradient of the discriminator's score sum with respect to a batch of
\* images: one vector per image.
D_grad(images) == [i \in 1..Len(images.rows) |-> <<images.rows[i], 1>>]

\* `self.r1_gamma > 0.0` / `self.r2_gamma > 0.0`
GradPenaltyAlways(gamma) == TRUE
GradPenaltyEnabled(gamma) == gamma > 0

\* `penalty * (gamma * 0.5)`: the weight as numerator and denominator.
PenaltyWeight(gamma) == <<gamma, 2>>

\* One penalty of d_loss: zeros (torch.zeros_like of the per-sample loss), or
\* the scaled gradient penalty when enabled.
Penalty(gamma, images, scaler) ==
    IF GradPenaltyEnabled(gamma)
    THEN LET p == ComputeGradPenalty(D_grad(images), scaler)
         IN [i \in 1..Len(p) |-> AmpScale(scaler, p[i])]
    ELSE [i \in 1..Len(images.rows) |-> 0]

\* The compute_grad_penalty calls d_loss makes, in order.
PenaltyCalls(r1_gamma, r2_gamma) ==
    (IF GradPenaltyEnabled(r1_gamma) THEN <<"real">> ELSE <<>>)
    \o (IF GradPenaltyEnabled(r2_gamma) THEN <<"fake">> ELSE <<>>)

\* ------------------------------------------------------ d_loss and g_loss
DLossRealDSync(sync) == sync
DLossGSyncOn(sync) == sync
DLossGSync(sync) == FALSE
DLossFakeDSync(sync) == sync
GLossGSync(sync) == sync
GLossDSync(sync) == FALSE

NoLocals ==
    [real_scores |-> None, fake_results |-> NotReturned,
     fake_pred_results |-> NotReturned,
     real_images |-> None, real_requires_grad |-> FALSE,
     grad_penalty_calls |-> <<>>,
     r1_penalty |-> <<>>, r2_penalty |-> <<>>,
     r1_weight |-> <<0, 1>>, r2_weight |-> <<0, 1>>]

\* d_loss up to and into its first forward pass: the discriminator on the
\* real batch (preprocess_image keeps the batch dimension).
CallDLoss ==
    /\ op = "none"
    /\ \E sync \in BOOLEAN :
          /\ callerSync' = sync
          /\ \E lbls \in DataLabels(runner.batch_size) :
                EnterCall("D", RunArgs(0, RealImages(runner.batch_size), lbls,
                                       DLossRealDSync(sync), 1))
    /\ locals' = [locals EXCEPT
                     !.real_images = RealImages(runner.batch_size),
                     !.real_requires_grad =
                         GradPenaltyEnabled(runner.r1_gamma)]
    /\ op' = "d_loss"
    /\ stage' = 1
    /\ UNCHANGED <<runner, calls, err, nonLossVars>>

\* d_loss: the real scores are kept, the generator is run on fresh latents.
DLoss_FakeG ==
    /\ op = "d_loss" /\ stage = 1 /\ lpc = "after"
    /\ locals' = [locals EXCEPT !.real_scores = ret["score"]]
    /\ EnterCall("G", RunArgs(0, None, None, DLossGSync(callerSync),
                              runner.batch_split))
    /\ stage' = 2
    /\ UNCHANGED <<runner, op, callerSync, calls, err, nonLossVars>>

\* d_loss: the discriminator is run on the generated images.
DLoss_FakeD ==
    /\ op = "d_loss" /\ stage = 2 /\ lpc = "after"
    /\ locals' = [locals EXCEPT !.fake_results = ret]
    /\ EnterCall("D", RunArgs(0, ret["image"], ret["label"],
                              DLossFakeDSync(callerSync), 1))
    /\ stage' = 3
    /\ UNCHANGED <<runner, op, callerSync, calls, err, nonLossVars>>

\* d_loss: the losses and the penalties are computed from the scores and
\* their weighted sum returned.
DLoss_Finish ==
    /\ op = "d_loss" /\ stage = 3 /\ lpc = "after"
    /\ locals' = [locals EXCEPT
          !.fake_pred_results = ret,
          !.grad_penalty_calls =
              PenaltyCalls(runner.r1_gamma, runner.r2_gamma),
          !.r1_penalty = Penalty(runner.r1_gamma, locals.real_images,
                                 runner.amp_scaler),
          !.r2_penalty = Penalty(runner.r2_gamma,
                                 locals.fake_results["image"],
                                 runner.amp_scaler),
          !.r1_weight = PenaltyWeight(runner.r1_gamma),
          !.r2_weight = PenaltyWeight(runner.r2_gamma)]
    /\ lpc' = "done"
    /\ UNCHANGED <<runner, op, stage, args, callerSync, batch_size,
                   split_batch_size, batch_idx, latents, labels, results,
                   calls, base, ret, err, nonLossVars>>

\* g_loss up to and into its first forward pass: the generator.
CallGLoss ==
    /\ op = "none"
    /\ \E sync \in BOOLEAN :
          /\ callerSync' = sync
          /\ EnterCall("G", RunArgs(0, None, None, GLossGSync(sync),
                                    runner.batch_split))
    /\ op' = "g_loss"
    /\ stage' = 1
    /\ UNCHANGED <<runner, calls, locals, err, nonLossVars>>

\* g_loss: the discriminator is run on the generated images.
GLoss_FakeD ==
    /\ op = "g_loss" /\ stage = 1 /\ lpc = "after"
    /\ locals' = [locals EXCEPT !.fake_results = ret]
    /\ EnterCall("D", RunArgs(0, ret["image"], ret["label"],
                              GLossDSync(callerSync), 1))
    /\ stage' = 2
    /\ UNCHANGED <<runner, op, callerSync, calls, err, nonLossVars>>

\* g_loss: the loss is computed from the scores and returned.
GLoss_Finish ==
    /\ op = "g_loss" /\ stage = 2 /\ lpc = "after"
    /\ locals' = [locals EXCEPT !.fake_pred_results = ret]
    /\ lpc' = "done"
    /\ UNCHANGED <<runner, op, stage, args, callerSync, batch_size,
                   split_batch_size, batch_idx, latents, labels, results,
                   calls, base, ret, err, nonLossVars>>

\* The runner and the loss object's settings.
Runner(bs, split, label_dim, r1, r2, scaler) ==
    [batch_size |-> bs, batch_split |-> split, label_dim |-> label_dim,
     r1_gamma |-> r1, r2_gamma |-> r2, amp_scaler |-> scaler]

\* R1 on, R2 off (the defaults' signs), no mixed precision.
DefaultRunner(bs, split, label_dim) ==
    Runner(bs, split, label_dim, MaxGamma, 0, NoAmp)

Gammas == (0 - 1)..MaxGamma

Scalers == {NoAmp} \cup { Scaler(TRUE, k) : k \in 1..MaxScale }

\* Every batching with the default penalties, and every penalty setting
\* and scaler with one batching.
Runners ==
    { DefaultRunner(bs, split, ld) :
        bs \in 1..MaxBatch, split \in 1..MaxSplit, ld \in 0..MaxLabelDim }
    \cup
    { Runner(2, 1, 0, r1, r2, sc) :
        r1 \in Gammas, r2 \in Gammas, sc \in Scalers }

\* The state before any entry point of the loss is called.
LossStart ==
    /\ op = "none"
    /\ stage = 0
    /\ lpc = "idle"
    /\ args = RunArgs(0, None, None, FALSE, 1)
    /\ callerSync = FALSE
    /\ batch_size = 0
    /\ split_batch_size = 0
    /\ batch_idx = 0
    /\ latents = None
    /\ labels = None
    /\ results = EmptyDict
    /\ calls = <<>>
    /\ base = 0
    /\ ret = NotReturned
    /\ locals = NoLocals
    /\ err = "none"

\* ------------------------------------------------------------ the replicas
Replicas == 0..(WorldSize - 1)

\* self.is_chief: the replica of rank 0.
IsChief(r) == r = 0

\* get_replica_num(num) and replica_latent_num: the samples of one replica,
\* the total split evenly and rounded up.
ReplicaNum(num) == (num + WorldSize - 1) \div WorldSize

NoFeatures == [t |-> "none", key |-> <<"", 0>>]
Features(kind, name, n) == [t |-> kind, key |-> <<name, n>>]

NoResult == [t |-> "none", name |-> "", value |-> NoFeatures]
ResultDict(name, value) == [t |-> "dict", name |-> name, value |-> value]

\* self.sync() called by replica r, which then goes on at `next`: the
\* replica arrives at the barrier and waits there for the others.
SyncCall(r, next) ==
    /\ arrived' = [arrived EXCEPT ![r] = @ + 1]
    /\ opSyncs' = [opSyncs EXCEPT ![r] = @ + 1]
    /\ cont' = [cont EXCEPT ![r] = next]
    /\ mpc' = [mpc EXCEPT ![r] = "barrier"]

\* The barrier opens for a replica once every replica has arrived at it.
Barrier_Pass(r) ==
    /\ mpc[r] = "barrier"
    /\ \A q \in Replicas : arrived[q] >= arrived[r]
    /\ mpc' = [mpc EXCEPT ![r] = cont[r]]
    /\ UNCHANGED <<metric, loader, mop, cacheFiles, cacheWrites, cont,
                   arrived, opSyncs, training, G_mode, entryMode, loaderPos,
                   nextCalls, idx, view, draws, batch, realHit, features,
                   result, forwards, outputs, merr, nonMetricVars>>

\* --------------------------------------------- KIDMetric: real features
\* The number of real images used.
EffectiveRealNumRaw(real_num, size) == IF real_num < 0 THEN size ELSE real_num
EffectiveRealNum(real_num, size) ==
    IF real_num < 0 THEN size
    ELSE IF real_num < size THEN real_num ELSE size

\* f'{dataset_name}_{real_num}_inception_feature.npy'
CacheName(dataset_name, real_num) == <<dataset_name, real_num>>

\* os.path.exists(cache_path)
CacheNeverExists(name) == FALSE
CacheExists(name) == name \in cacheFiles

cache_name ==
    CacheName(mop.dataset_name, EffectiveRealNum(metric.real_num, loader.size))

\* next(data_loader): one more batch of the loader's pass.
NextBatch(r) ==
    /\ nextCalls' = [nextCalls EXCEPT ![r] = @ + 1]
    /\ loaderPos' = [loaderPos EXCEPT ![r] = (@ + 1) % loader.len]

Forward(model, data, mode) ==
    [model |-> model, data |-> data, training |-> mode,
     codes |-> <<"none", 0, 0>>, labels |-> <<"none", 0, 0>>,
     azimuthal |-> 0, polar |-> "none", radius |-> 0]

\* The cache file exists: the chief loads it, the others hold None.
ExtractReal_Hit(r) ==
    /\ mpc[r] = "real_check"
    /\ CacheExists(cache_name)
    /\ realHit' = [realHit EXCEPT ![r] = "hit"]
    /\ features' = [features EXCEPT ![r].real =
                       IF IsChief(r)
                       THEN Features("real", cache_name[1], cache_name[2])
                       ELSE NoFeatures]
    /\ SyncCall(r, "fake_start")
    /\ UNCHANGED <<metric, loader, mop, cacheFiles, cacheWrites,
                   training, G_mode, entryMode, loaderPos, nextCalls, idx,
                   view, draws, batch, result, forwards, outputs, merr,
                   nonMetricVars>>

\* No cache file: the replica starts the pass over the data loader.
ExtractReal_Miss(r) ==
    /\ mpc[r] = "real_check"
    /\ ~CacheExists(cache_name)
    /\ realHit' = [realHit EXCEPT ![r] = "miss"]
    /\ idx' = [idx EXCEPT ![r] = 0]
    /\ mpc' = [mpc EXCEPT ![r] = "real_loop"]
    /\ UNCHANGED <<metric, loader, mop, cacheFiles, cacheWrites, cont,
                   arrived, opSyncs, training, G_mode, entryMode, loaderPos,
                   nextCalls, view, draws, batch, features, result, forwards,
                   outputs, merr, nonMetricVars>>

\* A batch past this replica's share: fetched and dropped.
ExtractReal_SkipNoFetch(r) ==
    /\ mpc[r] = "real_loop"
    /\ idx[r] < loader.len
    /\ idx[r] * loader.batch_size >=
          ReplicaNum(EffectiveRealNum(metric.real_num, loader.size))
    /\ idx' = [idx EXCEPT ![r] = @ + 1]
    /\ UNCHANGED <<metric, loader, mop, cacheFiles, cacheWrites, mpc,
                   cont, arrived, opSyncs, training, G_mode, entryMode,
                   loaderPos, nextCalls, view, draws, batch, realHit, features,
                   result, forwards, outputs, merr, nonMetricVars>>
ExtractReal_Skip(r) ==
    /\ mpc[r] = "real_loop"
    /\ idx[r] < loader.len
    /\ idx[r] * loader.batch_size >=
          ReplicaNum(EffectiveRealNum(metric.real_num, loader.size))
    /\ NextBatch(r)
    /\ idx' = [idx EXCEPT ![r] = @ + 1]
    /\ UNCHANGED <<metric, loader, mop, cacheFiles, cacheWrites, mpc,
                   cont, arrived, opSyncs, training, G_mode, entryMode, view,
                   draws, batch, realHit, features, result, forwards, outputs,
                   merr, nonMetricVars>>

\* A batch of this replica's share: fetched and fed to the inception model.
ExtractReal_Batch(r) ==
    /\ mpc[r] = "real_loop"
    /\ idx[r] < loader.len
    /\ idx[r] * loader.batch_size <
          ReplicaNum(EffectiveRealNum(metric.real_num, loader.size))
    /\ NextBatch(r)
    /\ forwards' = [forwards EXCEPT ![r] =
                       Append(@, [Forward("inception", "real", FALSE)
                                    EXCEPT !.codes = <<"batch", idx[r], 0>>])]
    /\ idx' = [idx EXCEPT ![r] = @ + 1]
    /\ UNCHANGED <<metric, loader, mop, cacheFiles, cacheWrites, mpc,
                   cont, arrived, opSyncs, training, G_mode, entryMode, view,
                   draws, batch, realHit, features, result, outputs, merr,
                   nonMetricVars>>

\* Who writes the cache file after the pass.
SavesCache(r) == IsChief(r)

\* After the pass: the chief keeps the gathered features and saves them to
\* the cache, the others hold None; then the barrier.
ExtractReal_Save(r) ==
    /\ mpc[r] = "real_loop"
    /\ idx[r] >= loader.len
    /\ IF SavesCache(r)
       THEN /\ cacheFiles' = cacheFiles \cup {cache_name}
            /\ cacheWrites' = Append(cacheWrites,
                                     [by |-> r, name |-> cache_name,
                                      call |-> "this"])
       ELSE UNCHANGED <<cacheFiles, cacheWrites>>
    /\ features' = [features EXCEPT ![r].real =
                       IF IsChief(r)
                       THEN Features("real", cache_name[1], cache_name[2])
                       ELSE NoFeatures]
    /\ SyncCall(r, "fake_start")
    /\ UNCHANGED <<metric, loader, mop, training, G_mode, entryMode,
                   loaderPos, nextCalls, idx, view, draws, batch, realHit,
                   result, forwards, outputs, merr, nonMetricVars>>

\* ------------------------------------- the generator under evaluation
\* `if G_mode: G.train()`: the mode after the restore.
NoRestore(saved, current) == current
RestoreMode(saved, current) == IF saved THEN TRUE ELSE current

\* Each replica's share of the fake_num / latent_num latent codes.
replica_latent_num == ReplicaNum(metric.num)

Min(a, b) == IF a < b THEN a ELSE b

\* batch_codes of [start, end): drawn from g1, or read from the latent file.
BatchCodes(r, start, end) ==
    IF metric.random_latents
    THEN <<"randn", draws[r].g1, end - start>>
    ELSE <<"file", start, end>>

\* batch_labels of [start, end): empty, drawn from g2, or read from the file.
BatchLabels(r, start, end) ==
    IF metric.random_labels
    THEN IF metric.label_dim = 0
         THEN <<"zeros", end - start, 0>>
         ELSE <<"onehot", draws[r].g2, end - start>>
    ELSE <<"file", start, end>>

\* The draws made from g1 and g2 for one batch.
DrawBatch(r) ==
    draws' = [draws EXCEPT
                ![r].g1 = IF metric.random_latents THEN @ + 1 ELSE @,
                ![r].g2 = IF metric.random_labels /\ metric.label_dim > 0
                          THEN @ + 1 ELSE @]

\* The training mode is saved and the generator put in eval mode.
SaveModeAndEval(r) ==
    /\ G_mode' = [G_mode EXCEPT ![r] = training[r]]
    /\ training' = [training EXCEPT ![r] = FALSE]

\* --------------------------------------------- KIDMetric: fake features
ExtractFake_Start(r) ==
    /\ mpc[r] = "fake_start"
    /\ SaveModeAndEval(r)
    /\ idx' = [idx EXCEPT ![r] = 0]
    /\ mpc' = [mpc EXCEPT ![r] = "fake_loop"]
    /\ UNCHANGED <<metric, loader, mop, cacheFiles, cacheWrites, cont,
                   arrived, opSyncs, entryMode, loaderPos, nextCalls, view,
                   draws, batch, realHit, features, result, forwards, outputs,
                   merr, nonMetricVars>>

\* One batch of latent codes: generator, then inception model.
ExtractFake_Batch(r) ==
    /\ mpc[r] = "fake_loop"
    /\ idx[r] < replica_latent_num
    /\ LET start == idx[r]
           end == Min(start + metric.batch_size, replica_latent_num)
           codes == BatchCodes(r, start, end)
           lbls == BatchLabels(r, start, end)
       IN /\ batch' = [batch EXCEPT ![r] = [codes |-> codes, labels |-> lbls]]
          /\ forwards' = [forwards EXCEPT ![r] =
                @ \o <<[Forward("G", "fake", training[r])
                          EXCEPT !.codes = codes, !.labels = lbls],
                       [Forward("inception", "fake", FALSE)
                          EXCEPT !.codes = codes]>>]
          /\ idx' = [idx EXCEPT ![r] = end]
    /\ DrawBatch(r)
    /\ UNCHANGED <<metric, loader, mop, cacheFiles, cacheWrites, mpc,
                   cont, arrived, opSyncs, training, G_mode, entryMode,
                   loaderPos, nextCalls, view, realHit, features, result,
                   outputs, merr, nonMetricVars>>

\* After the loop: the chief keeps the gathered features, the others hold
\* None; the training mode is restored; then the barrier.
ExtractFake_Finish(r) ==
    /\ mpc[r] = "fake_loop"
    /\ idx[r] >= replica_latent_num
    /\ features' = [features EXCEPT ![r].fake =
                       IF IsChief(r)
                       THEN Features("fake", metric.name, metric.num)
                       ELSE NoFeatures]
    /\ training' = [training EXCEPT ![r] = RestoreMode(G_mode[r], @)]
    /\ SyncCall(r, "eval_tail")
    /\ UNCHANGED <<metric, loader, mop, cacheFiles, cacheWrites,
                   G_mode, entryMode, loaderPos, nextCalls, idx, view, draws,
                   batch, realHit, result, forwards, outputs, merr,
                   nonMetricVars>>

\* ------------------------------------------ KIDMetric: evaluate and save
\* What evaluate hands back on replica r.
ResultEverywhere(r, value) == ResultDict(metric.name, value)
EvaluateResult(r, value) ==
    IF IsChief(r) THEN ResultDict(metric.name, value) ELSE NoResult

\* The end of KIDMetric.evaluate: the chief computes the KID from both
\* feature sets, the others assert they hold none; then the barrier.
KIDEvaluate_Tail(r) ==
    /\ metric.class = "KID"
    /\ mpc[r] = "eval_tail"
    /\ IF ~IsChief(r) /\ ~(features[r].real = NoFeatures
                            /\ features[r].fake = NoFeatures)
       THEN /\ merr' = [merr EXCEPT ![r] = "AssertionError"]
            /\ mpc' = [mpc EXCEPT ![r] = "raised"]
            /\ UNCHANGED <<result, arrived, opSyncs, cont>>
       ELSE /\ result' = [result EXCEPT ![r] =
                    EvaluateResult(r, Features("kid", metric.name, 0))]
            /\ SyncCall(r, "idle")
            /\ UNCHANGED merr
    /\ UNCHANGED <<metric, loader, mop, cacheFiles, cacheWrites,
                   training, G_mode, entryMode, loaderPos, nextCalls, idx,
                   view, draws, batch, realHit, features, forwards, outputs,
                   nonMetricVars>>

\* What the chief's save writes: the log line, the file, and the
\* TensorBoard entry when there is a tb_writer.
SaveOutputs(first) ==
    first \o (IF mop.tb THEN <<"tensorboard">> ELSE <<>>)

\* save of either metric: a replica other than the chief asserts it was
\* given None and only calls sync; the chief asserts it was given a dict,
\* writes, and calls sync.
\* A save in which only the chief reaches the barrier.
SaveSyncChiefOnly(r) ==
    IF IsChief(r)
    THEN SyncCall(r, "idle")
    ELSE /\ mpc' = [mpc EXCEPT ![r] = "idle"]
         /\ UNCHANGED <<arrived, opSyncs, cont>>

\* save ends with one sync() on either branch: the early return of a replica
\* other than the chief, and the end of the chief's writing.
SaveSync(r) == SyncCall(r, "idle")

Save(r, first) ==
    /\ mpc[r] = "save"
    /\ IF (~IsChief(r) /\ result[r] # NoResult)
          \/ (IsChief(r) /\ result[r].t # "dict")
       THEN /\ merr' = [merr EXCEPT ![r] = "AssertionError"]
            /\ mpc' = [mpc EXCEPT ![r] = "raised"]
            /\ UNCHANGED <<outputs, arrived, opSyncs, cont>>
       ELSE /\ outputs' = [outputs EXCEPT ![r] =
                    IF IsChief(r) THEN @ \o SaveOutputs(first) ELSE @]
            /\ SaveSync(r)
            /\ UNCHANGED merr
    /\ UNCHANGED <<metric, loader, mop, cacheFiles, cacheWrites,
                   training, G_mode, entryMode, loaderPos, nextCalls, idx,
                   view, draws, batch, realHit, features, result, forwards,
                   nonMetricVars>>

KIDSave(r) ==
    /\ metric.class = "KID"
    /\ Save(r, <<"log", "txt">>)

\* ------------------------------------------------ GANSnapshotMultiView
NumViews == 8
AzimuthalStart == -6   \* tenths of a radian from pi/2
AzimuthalEnd == 6
Radius == 1

\* np.linspace(a, b, n): n evenly spaced values from a to b inclusive, here
\* as numerators over n - 1.
Linspace(a, b, n) == [k \in 1..n |-> a * (n - 1) + (k - 1) * (b - a)]

Synthesize_Start(r) ==
    /\ mpc[r] = "synth_start"
    /\ SaveModeAndEval(r)
    /\ idx' = [idx EXCEPT ![r] = 0]
    /\ mpc' = [mpc EXCEPT ![r] = "synth_loop"]
    /\ UNCHANGED <<metric, loader, mop, cacheFiles, cacheWrites, cont,
                   arrived, opSyncs, entryMode, loaderPos, nextCalls, view,
                   draws, batch, realHit, features, result, forwards, outputs,
                   merr, nonMetricVars>>

\* One latent code (batch_size is 1): the code is drawn from g1 and the
\* label prepared, once for all the views.
Synthesize_Codes(r) ==
    /\ mpc[r] = "synth_loop"
    /\ idx[r] < replica_latent_num
    /\ metric.random_latents
    /\ LET start == idx[r]
           end == Min(start + 1, replica_latent_num)
       IN batch' = [batch EXCEPT ![r] =
                      [codes |-> <<"randn", draws[r].g1, end - start>>,
                       labels |-> BatchLabels(r, start, end)]]
    /\ DrawBatch(r)
    /\ view' = [view EXCEPT ![r] = 0]
    /\ mpc' = [mpc EXCEPT ![r] = "synth_views"]
    /\ UNCHANGED <<metric, loader, mop, cacheFiles, cacheWrites, cont,
                   arrived, opSyncs, training, G_mode, entryMode, loaderPos,
                   nextCalls, idx, realHit, features, result, forwards,
                   outputs, merr, nonMetricVars>>

\* With latent codes read from a file g1 was never assigned: drawing the
\* batch from it raises.
Synthesize_Unbound(r) ==
    /\ mpc[r] = "synth_loop"
    /\ idx[r] < replica_latent_num
    /\ ~metric.random_latents
    /\ merr' = [merr EXCEPT ![r] = "UnboundLocalError"]
    /\ mpc' = [mpc EXCEPT ![r] = "raised"]
    /\ UNCHANGED <<metric, loader, mop, cacheFiles, cacheWrites, cont,
                   arrived, opSyncs, training, G_mode, entryMode, loaderPos,
                   nextCalls, idx, view, draws, batch, realHit, features,
                   result, forwards, outputs, nonMetricVars>>

\* One view of the current latent code: the camera at the next azimuthal
\* angle, the generator forward; after the last view, the next latent code.
Synthesize_View(r) ==
    /\ mpc[r] = "synth_views"
    /\ view[r] < NumViews
    /\ forwards' = [forwards EXCEPT ![r] =
          Append(@, [Forward("G", "fake", training[r]) EXCEPT
                       !.codes = batch[r].codes,
                       !.labels = batch[r].labels,
                       !.azimuthal = Linspace(AzimuthalStart, AzimuthalEnd,
                                              NumViews)[view[r] + 1],
                       !.polar = "pi/2",
                       !.radius = Radius])]
    /\ view' = [view EXCEPT ![r] = @ + 1]
    /\ IF view[r] + 1 = NumViews
       THEN /\ idx' = [idx EXCEPT ![r] = @ + 1]
            /\ mpc' = [mpc EXCEPT ![r] = "synth_loop"]
       ELSE UNCHANGED <<idx, mpc>>
    /\ UNCHANGED <<metric, loader, mop, cacheFiles, cacheWrites, cont,
                   arrived, opSyncs, training, G_mode, entryMode, loaderPos,
                   nextCalls, draws, batch, realHit, features, result,
                   outputs, merr, nonMetricVars>>

\* After the loop: the chief keeps the first latent_num * 8 gathered images,
\* the others hold None; the training mode is restored; then the barrier.
Synthesize_Finish(r) ==
    /\ mpc[r] = "synth_loop"
    /\ idx[r] >= replica_latent_num
    /\ features' = [features EXCEPT ![r].fake =
                       IF IsChief(r)
                       THEN Features("images", metric.name,
                                     metric.num * NumViews)
                       ELSE NoFeatures]
    /\ training' = [training EXCEPT ![r] = RestoreMode(G_mode[r], @)]
    /\ SyncCall(r, "eval_tail")
    /\ UNCHANGED <<metric, loader, mop, cacheFiles, cacheWrites,
                   G_mode, entryMode, loaderPos, nextCalls, idx, view, draws,
                   batch, realHit, result, forwards, outputs, merr,
                   nonMetricVars>>

\* The end of GANSnapshotMultiView.evaluate.
SnapEvaluate_Tail(r) ==
    /\ metric.class = "Snapshot"
    /\ mpc[r] = "eval_tail"
    /\ IF ~IsChief(r) /\ features[r].fake # NoFeatures
       THEN /\ merr' = [merr EXCEPT ![r] = "AssertionError"]
            /\ mpc' = [mpc EXCEPT ![r] = "raised"]
            /\ UNCHANGED <<result, arrived, opSyncs, cont>>
       ELSE /\ result' = [result EXCEPT ![r] =
                              EvaluateResult(r, features[r].fake)]
            /\ SyncCall(r, "idle")
            /\ UNCHANGED merr
    /\ UNCHANGED <<metric, loader, mop, cacheFiles, cacheWrites,
                   training, G_mode, entryMode, loaderPos, nextCalls, idx,
                   view, draws, batch, realHit, features, forwards, outputs,
                   nonMetricVars>>

SnapSave(r) ==
    /\ metric.class = "Snapshot"
    /\ Save(r, <<"png", "log">>)

\* ------------------------------------------------------ the metric calls
DatasetNames == {"a", "b"}

\* The dataset behind the data loader handed to evaluate; the snapshot
\* metric ignores its data loader.
LoaderNames == IF metric.class = "KID" THEN DatasetNames ELSE {"none"}

PerReplica(v) == [r \in Replicas |-> v]

\* Every replica enters evaluate with the same data loader and its copy of
\* the generator.
StartEvaluate ==
    /\ \A r \in Replicas : mpc[r] = "idle"
    /\ \E name \in LoaderNames :
          mop' = [kind |-> "evaluate", dataset_name |-> name, tb |-> FALSE]
    /\ cacheWrites' = [i \in 1..Len(cacheWrites) |->
                          [cacheWrites[i] EXCEPT !.call = "earlier"]]
    /\ entryMode' = training
    /\ mpc' = PerReplica(IF metric.class = "KID" THEN "real_check"
                         ELSE "synth_start")
    /\ opSyncs' = PerReplica(0)
    /\ nextCalls' = PerReplica(0)
    /\ idx' = PerReplica(0)
    /\ view' = PerReplica(0)
    /\ draws' = PerReplica([g1 |-> 0, g2 |-> 0])
    /\ batch' = PerReplica([codes |-> <<"none", 0, 0>>,
                            labels |-> <<"none", 0, 0>>])
    /\ realHit' = PerReplica("unchecked")
    /\ features' = PerReplica([real |-> NoFeatures, fake |-> NoFeatures])
    /\ result' = PerReplica(NoResult)
    /\ forwards' = PerReplica(<<>>)
    /\ outputs' = PerReplica(<<>>)
    /\ arrived' = PerReplica(0)
    /\ UNCHANGED <<metric, loader, cacheFiles, cont, training, G_mode,
                   loaderPos, merr, nonMetricVars>>

\* Every replica enters save with the result evaluate gave it.
StartSave ==
    /\ \A r \in Replicas : mpc[r] = "idle"
    /\ mop.kind = "evaluate"
    /\ \E tb \in BOOLEAN :
          mop' = [kind |-> "save", dataset_name |-> mop.dataset_name,
                  tb |-> tb]
    /\ mpc' = PerReplica("save")
    /\ opSyncs' = PerReplica(0)
    /\ outputs' = PerReplica(<<>>)
    /\ arrived' = PerReplica(0)
    /\ UNCHANGED <<metric, loader, cacheFiles, cacheWrites, cont,
                   training, G_mode, entryMode, loaderPos, nextCalls, idx,
                   view, draws, batch, realHit, features, result, forwards,
                   merr, nonMetricVars>>

\* ----------------------------------------------- the metric specification
LabelModes == {<<TRUE, 0>>, <<TRUE, MaxLabelDim>>, <<FALSE, MaxLabelDim>>}

KIDMetric(rn, n, b, rl, lm) ==
    [class |-> "KID", name |-> "KID", real_num |-> rn, num |-> n,
     batch_size |-> b, random_latents |-> rl, random_labels |-> lm[1],
     label_dim |-> lm[2]]

Loaders ==
    [size : 0..MaxData, batch_size : 1..MaxLoaderBatch, len : 0..MaxLoaderLen]

NoLoader == [size |-> 0, batch_size |-> 1, len |-> 0]

\* The set-ups (metric, data loader, generator mode) vary one side at a
\* time, the sides not reading each other's parameters.  KID: every
\* real_num with every batching of the largest dataset; every dataset size
\* under the largest real_num; every fake number and batch size in both
\* generator modes; every label mode.
LargestLoaders == {l \in Loaders : l.size = MaxData}

OneBatchLoader == [size |-> 1, batch_size |-> 1, len |-> 1]

KIDSetups ==
    { <<KIDMetric(rn, 1, 1, TRUE, <<TRUE, 0>>), ld, TRUE>> :
        rn \in -1..MaxData, ld \in LargestLoaders }
    \cup
    { <<KIDMetric(MaxData, 1, 1, TRUE, <<TRUE, 0>>),
        [size |-> n, batch_size |-> 1, len |-> MaxLoaderLen], TRUE>> :
        n \in 0..MaxData }
    \cup
    { <<KIDMetric(-1, n, b, TRUE, <<TRUE, 0>>), OneBatchLoader, mode>> :
        n \in 0..MaxFake, b \in 1..MaxMetricBatch, mode \in BOOLEAN }
    \cup
    { <<KIDMetric(-1, MaxFake, 1, lm[1], lm), OneBatchLoader, TRUE>> :
        lm \in LabelModes }

SnapshotMetric(n, rl, lm) ==
    [class |-> "Snapshot", name |-> "snapshot_multi_view", real_num |-> -1,
     num |-> n, batch_size |-> 1, random_latents |-> rl,
     random_labels |-> lm[1], label_dim |-> lm[2]]

\* Snapshot: every latent number with and without a latent file in both
\* generator modes; every label mode.
SnapshotSetups ==
    { <<SnapshotMetric(n, rl, <<TRUE, 0>>), NoLoader, mode>> :
        n \in 0..MaxFake, rl \in BOOLEAN, mode \in BOOLEAN }
    \cup
    { <<SnapshotMetric(MaxFake, TRUE, lm), NoLoader, TRUE>> :
        lm \in LabelModes }

\* The state before any metric call, the generator in mode `mode`.
MetricStart(mode) ==
    /\ mop = [kind |-> "none", dataset_name |-> "", tb |-> FALSE]
    /\ cacheFiles = {}
    /\ cacheWrites = <<>>
    /\ mpc = PerReplica("idle")
    /\ cont = PerReplica("idle")
    /\ arrived = PerReplica(0)
    /\ opSyncs = PerReplica(0)
    /\ training = PerReplica(mode)
    /\ G_mode = PerReplica(mode)
    /\ entryMode = PerReplica(mode)
    /\ loaderPos = PerReplica(0)
    /\ nextCalls = PerReplica(0)
    /\ idx = PerReplica(0)
    /\ view = PerReplica(0)
    /\ draws = PerReplica([g1 |-> 0, g2 |-> 0])
    /\ batch = PerReplica([codes |-> <<"none", 0, 0>>,
                           labels |-> <<"none", 0, 0>>])
    /\ realHit = PerReplica("unchecked")
    /\ features = PerReplica([real |-> NoFeatures, fake |-> NoFeatures])
    /\ result = PerReplica(NoResult)
    /\ forwards = PerReplica(<<>>)
    /\ outputs = PerReplica(<<>>)
    /\ merr = PerReplica("none")

MetricOff ==
    /\ metric = [class |-> "none", name |-> "", real_num |-> -1, num |-> 0,
                 batch_size |-> 1, random_latents |-> TRUE,
                 random_labels |-> TRUE, label_dim |-> 0]
    /\ loader = NoLoader
    /\ MetricStart(TRUE)

PureOff ==
    /\ pureFn = "none"
    /\ input = <<>>
    /\ output = "pending"

\* ------------------------------------------------- the pure functions
\* The real_num and fake_num the KID classes are built with.
KID50K_real_num == 50000
KID50K_fake_num == 50000
KID50KFull_real_num == 1000000
KID50KFull_fake_num == 50000

\* Dataset sizes: the small ones and those around the two class limits.
DatasetSizes ==
    (0..(MaxData + 2))
    \cup {KID50K_real_num - 1, KID50K_real_num, KID50K_real_num + 1,
          KID50KFull_real_num - 1, KID50KFull_real_num,
          KID50KFull_real_num + 1}

\* The objects extract_real_features is applied to.
KIDObjects ==
    { [class |-> "KIDMetric", real_num |-> rn, fake_num |-> n] :
        rn \in (0 - 2)..(MaxData + 3), n \in (0 - 1)..MaxFake }
    \cup { [class |-> "KID50K", real_num |-> KID50K_real_num,
            fake_num |-> KID50K_fake_num],
           [class |-> "KID50KFull", real_num |-> KID50KFull_real_num,
            fake_num |-> KID50KFull_fake_num] }

\* The number of real images extract_real_features uses on a dataset.
ApplyRealNum ==
    /\ pureFn = "none"
    /\ \E obj \in KIDObjects, size \in DatasetSizes :
          /\ input' = [self |-> obj, size |-> size]
          /\ output' = EffectiveRealNum(obj.real_num, size)
    /\ pureFn' = "real_num"
    /\ UNCHANGED nonPureVars

\* A metric value or None.
NoValue == [none |-> TRUE, v |-> 0]
Value(v) == [none |-> FALSE, v |-> v]

\* KIDMetric._is_better_than
KIDIsBetterOrEqual(self_name, metric_name, new, ref) ==
    IF metric_name = self_name
    THEN IF ref.none \/ new.v <= ref.v THEN "True" ELSE "False"
    ELSE "None"
KIDIsBetterThan(self_name, metric_name, new, ref) ==
    IF metric_name = self_name
    THEN IF ref.none \/ new.v < ref.v THEN "True" ELSE "False"
    ELSE "None"

\* GANSnapshotMultiView._is_better_than
SnapshotIsBetterThan(self_name, metric_name, new, ref) == "None"

Scores == { Value(v) : v \in (0 - MaxScore)..MaxScore }

MetricNames == {"KID", "KID50K", "snapshot_multi_view"}

ApplyKIDIsBetterThan ==
    /\ pureFn = "none"
    /\ \E self_name \in {"KID", "KID50K"}, metric_name \in MetricNames,
          new \in Scores, ref \in Scores \cup {NoValue} :
          /\ input' = [self_name |-> self_name, metric_name |-> metric_name,
                       new |-> new, ref |-> ref]
          /\ output' = KIDIsBetterThan(self_name, metric_name, new, ref)
    /\ pureFn' = "kid_is_better_than"
    /\ UNCHANGED nonPureVars

ApplySnapshotIsBetterThan ==
    /\ pureFn = "none"
    /\ \E metric_name \in MetricNames,
          new \in Scores \cup {NoValue}, ref \in Scores \cup {NoValue} :
          /\ input' = [self_name |-> "snapshot_multi_view",
                       metric_name |-> metric_name, new |-> new, ref |-> ref]
          /\ output' = SnapshotIsBetterThan("snapshot_multi_view",
                                            metric_name, new, ref)
    /\ pureFn' = "snapshot_is_better_than"
    /\ UNCHANGED nonPureVars

\* ------------------------------------------------------ preprocess_image
\* A batch of images: its height and width, the operations applied to the
\* input so far, the blend weights used (numerators over LodDen; none
\* before a blend), and the error an operation raised.
Image(h, w) == [h |-> h, w |-> w, ops |-> <<>>, weights |-> <<>>,
                err |-> "none"]

\* int(lod) of Python, truncating toward zero; lod is k / LodDen.
PyInt(k) == IF k >= 0 THEN k \div LodDen ELSE 0 - ((0 - k) \div LodDen)

\* F.avg_pool2d(kernel_size=2, stride=2, padding=0): halves each side,
\* rounding down; a side shorter than the kernel is an error.
AvgPool2d(img) ==
    IF img.err # "none" THEN img
    ELSE IF img.h < 2 \/ img.w < 2 THEN [img EXCEPT !.err = "RuntimeError"]
    ELSE [img EXCEPT !.h = img.h \div 2, !.w = img.w \div 2,
                     !.ops = Append(@, "avg_pool2d")]

\* F.interpolate(scale_factor=f, mode='nearest')
Interpolate(img, f) ==
    IF img.err # "none" THEN img
    ELSE [img EXCEPT !.h = img.h * f, !.w = img.w * f,
                     !.ops = Append(@, "interpolate")]

\* `for _ in range(int(lod))`: n poolings (none when n <= 0).
RECURSIVE Downsample(_, _)
Downsample(img, n) == IF n <= 0 THEN img ELSE Downsample(AvgPool2d(img), n - 1)

\* `images * (1 - alpha) + upsampled_images * alpha` with alpha = a / LodDen:
\* the two shapes must agree (neither side is 1 here, so nothing broadcasts).
Blend(img, upsampled, a) ==
    IF img.err # "none" THEN img
    ELSE IF upsampled.err # "none" THEN [img EXCEPT !.err = upsampled.err]
    ELSE IF img.h # upsampled.h \/ img.w # upsampled.w
         THEN [img EXCEPT !.err = "RuntimeError"]
    ELSE [img EXCEPT !.ops = Append(@, "blend"),
                     !.weights = <<LodDen - a, a>>]

\* The factor of the final upsampling.
UpsampleFactorLinear(n) == 2 * n
UpsampleFactor(n) == 2 ^ n

\* preprocess_image(images, lod) with lod = k / LodDen.
PreprocessImage(images, k) ==
    LET down == Downsample(images, PyInt(k))
        mixed == IF k # PyInt(k) * LodDen
                 THEN Blend(down, Interpolate(AvgPool2d(down), 2),
                            k - PyInt(k) * LodDen)
                 ELSE down
    IN IF mixed.err # "none" THEN mixed
       ELSE IF PyInt(k) = 0 THEN mixed
       ELSE Interpolate(mixed, UpsampleFactor(PyInt(k)))

\* The lods applied: from just above -1 (int() truncates these to 0) up to
\* MaxLod.
Lods == (1 - LodDen)..(MaxLod * LodDen)

ApplyPreprocessImage ==
    /\ pureFn = "none"
    /\ \E h \in 1..MaxSize, w \in 1..MaxSize, k \in Lods :
          /\ input' = [images |-> Image(h, w), lod |-> k]
          /\ output' = PreprocessImage(Image(h, w), k)
    /\ pureFn' = "preprocess_image"
    /\ UNCHANGED nonPureVars

\* ------------------------------------------- StyleSDFConfig.parse_options
\* The options parse_options pops whose values it only passes on, in the
\* order of get_options.
OptionNames ==
    <<"resolution", "image_channels", "min_val", "max_val", "use_square",
      "center_crop", "g_init_res", "latent_dim", "d_fmaps_factor",
      "d_mbstd_groups", "g_fmaps_factor", "g_num_mappings",
      "sphere_init_path", "d_lr", "d_beta_1", "d_beta_2", "g_lr", "g_beta_1",
      "g_beta_2", "style_mixing_prob", "r1_gamma", "g_ema_img", "clamp_mode",
      "num_points", "num_importance", "ray_start", "ray_end", "radius_fix",
      "polar_mean", "polar_stddev", "azimuthal_mean", "azimuthal_stddev",
      "fov", "perturbation_strategy">>

PassedOptions == { OptionNames[i] : i \in 1..Len(OptionNames) }

\* The k-th value of an option: values of different options never coincide,
\* so a value found in the configuration tells which option it came from.
OptValue(o, k) ==
    (CHOOSE i \in 1..Len(OptionNames) : OptionNames[i] = o)
    + k * Len(OptionNames)

\* The parsed command line: every option at its first value but `o`, which
\* is at its k-th; label_dim and use_ada are read by parse_options itself.
Args(o, k, label_dim, use_ada) ==
    [x \in PassedOptions \cup {"label_dim", "use_ada"} |->
        IF x = "label_dim" THEN label_dim
        ELSE IF x = "use_ada" THEN use_ada
        ELSE OptValue(x, IF x = o THEN k ELSE 0)]

\* dict.update
Update(d, new) ==
    [x \in (DOMAIN d) \cup (DOMAIN new) |->
        IF x \in DOMAIN new THEN new[x] ELSE d[x]]

NoDict == [x \in {} |-> 0]

\* The configuration super().parse_options() leaves: with or without mixed
\* precision, with or without an augmentation and controllers of its own.
Config(enable_amp, aug, aug_kwargs, controllers) ==
    [enable_amp |-> enable_amp, aug |-> aug, aug_kwargs |-> aug_kwargs,
     controllers |-> controllers, data |-> NoDict, models |-> NoDict,
     loss |-> NoDict, metrics |-> NoDict, grad_clip |-> NoDict,
     full_pipeline |-> TRUE]

BaseConfigs ==
    { Config(amp, NoDict, NoDict, NoDict) : amp \in BOOLEAN }
    \cup
    { Config(amp, [aug_type |-> "NoAug"], [prob |-> "1"],
             [Timer |-> [every_n_iters |-> 1]]) : amp \in BOOLEAN }

Min2(a, b) == IF a < b THEN a ELSE b

DataTransformKwargs(a) ==
    [image_size |-> a["resolution"], image_channels |-> a["image_channels"],
     min_val |-> a["min_val"], max_val |-> a["max_val"],
     use_square |-> a["use_square"], center_crop |-> a["center_crop"],
     resize_size_pre |-> 320, crop_size_pre |-> 256]

PointSamplingKwargsSwapped(a) ==
    [image_boundary_value |-> "1.0", x_axis_right |-> TRUE,
     y_axis_up |-> TRUE, z_axis_out |-> TRUE, radius_strategy |-> "fix",
     radius_fix |-> a["radius_fix"], polar_strategy |-> "normal",
     polar_mean |-> a["polar_mean"], polar_stddev |-> a["polar_stddev"],
     azimuthal_strategy |-> "normal",
     azimuthal_mean |-> a["azimuthal_mean"],
     azimuthal_stddev |-> a["azimuthal_stddev"], fov |-> a["fov"],
     perturbation_strategy |-> a["perturbation_strategy"],
     dis_min |-> a["ray_end"], dis_max |-> a["ray_start"],
     num_points |-> a["num_points"]]
PointSamplingKwargs(a) ==
    [image_boundary_value |-> "1.0", x_axis_right |-> TRUE,
     y_axis_up |-> TRUE, z_axis_out |-> TRUE, radius_strategy |-> "fix",
     radius_fix |-> a["radius_fix"], polar_strategy |-> "normal",
     polar_mean |-> a["polar_mean"], polar_stddev |-> a["polar_stddev"],
     azimuthal_strategy |-> "normal",
     azimuthal_mean |-> a["azimuthal_mean"],
     azimuthal_stddev |-> a["azimuthal_stddev"], fov |-> a["fov"],
     perturbation_strategy |-> a["perturbation_strategy"],
     dis_min |-> a["ray_start"], dis_max |-> a["ray_end"],
     num_points |-> a["num_points"]]

RayMarchingKwargs(a) ==
    [use_mid_point |-> FALSE, density_clamp_mode |-> a["clamp_mode"],
     normalize_radial_dist |-> FALSE, clip_radial_dist |-> FALSE]

DiscriminatorConfig(a, cfg) ==
    [model |-> [model_type |-> "StyleSDFDiscriminator",
                resolution |-> a["resolution"],
                latent_dim |-> a["latent_dim"],
                label_dim |-> a["label_dim"]],
     lr |-> [lr_type |-> "FIXED"],
     opt |-> [opt_type |-> "Adam", base_lr |-> a["d_lr"],
              betas |-> <<a["d_beta_1"], a["d_beta_2"]>>],
     kwargs_train |-> [enable_amp |-> cfg.enable_amp],
     kwargs_val |-> [enable_amp |-> FALSE],
     has_unused_parameters |-> TRUE, broadcast_buffers |-> FALSE]

GeneratorConfig(a, cfg) ==
    [model |-> [model_type |-> "StyleSDFGenerator",
                z_dim |-> a["latent_dim"], w_dim |-> a["latent_dim"],
                mapping_layers |-> a["g_num_mappings"],
                synthesis_input_dim |-> 3, synthesis_output_dim |-> 256,
                synthesis_layers |-> 8, grid_scale |-> "0.24",
                freeze_renderer |-> FALSE, full_pipeline |-> FALSE,
                image_resolution |-> a["resolution"],
                render_resolution |-> a["resolution"],
                num_importance |-> a["num_importance"],
                smooth_weights |-> FALSE,
                point_sampling_kwargs |-> PointSamplingKwargs(a),
                ray_marching_kwargs |-> RayMarchingKwargs(a),
                sphere_init_path |-> a["sphere_init_path"]],
     lr |-> [lr_type |-> "FIXED"],
     opt |-> [opt_type |-> "Adam", base_lr |-> a["g_lr"],
              betas |-> <<a["g_beta_1"], a["g_beta_2"]>>],
     kwargs_train |-> [style_mixing_prob |-> a["style_mixing_prob"],
                       enable_amp |-> cfg.enable_amp],
     kwargs_val |-> [enable_amp |-> FALSE],
     g_ema_img |-> a["g_ema_img"],
     has_unused_parameters |-> TRUE, broadcast_buffers |-> TRUE]

LossConfig(a) ==
    [loss_type |-> "StyleSDFLoss",
     d_loss_kwargs |-> [r1_gamma |-> a["r1_gamma"], latent_gamma |-> 0,
                        camera_gamma |-> 15, batch_split |-> 2,
                        fade_steps |-> 10000, full_pipeline |-> FALSE],
     g_loss_kwargs |-> [top_k_interval |-> 2000, top_v |-> "0.6",
                        eikonal_lambda |-> "0.1",
                        min_surf_lambda |-> "0.05"]]

DatasetVisualizerConfig(a) ==
    [viz_keys |-> "raw_image",
     viz_num |-> IF a["label_dim"] = 0 THEN 32 ELSE 8,
     viz_name |-> "Real Data",
     viz_groups |-> IF a["label_dim"] = 0 THEN 4 ELSE 1,
     viz_classes |-> Min2(10, a["label_dim"]),
     row_major |-> TRUE, min_val |-> a["min_val"], max_val |-> a["max_val"],
     shuffle |-> FALSE]

AdaAugConfig ==
    [aug_type |-> "AdaAug", xflip |-> 1, rotate90 |-> 1, xint |-> 1,
     scale |-> 1, rotate |-> 1, aniso |-> 1, xfrac |-> 1, brightness |-> 1,
     contrast |-> 1, lumaflip |-> 1, hue |-> 1, saturation |-> 1,
     imgfilter |-> 0, noise |-> 0, cutout |-> 0]

AdaAugControllerConfig ==
    [every_n_iters |-> 4, init_p |-> "0.0", target_p |-> "0.6",
     speed_img |-> 500000, strategy |-> "adaptive"]

MetricsConfig(a) ==
    [FID50KFull |->
        [init_kwargs |-> [name |-> "fid50k", latent_dim |-> a["latent_dim"],
                          label_dim |-> a["label_dim"]],
         eval_kwargs |-> [generator_smooth |-> [enable_amp |-> FALSE]],
         interval |-> "None", first_iter |-> "None",
         save_best |-> TRUE],
     GANSnapshot |->
        [init_kwargs |-> [name |-> "snapshot",
                          latent_dim |-> a["latent_dim"], latent_num |-> 32,
                          label_dim |-> a["label_dim"],
                          min_val |-> a["min_val"], max_val |-> a["max_val"]],
         eval_kwargs |-> [generator_smooth |-> [enable_amp |-> FALSE]],
         interval |-> "None", first_iter |-> "None",
         save_best |-> FALSE]]

\* `if self.args.pop('use_ada')`
UseAdaAlways(a) == TRUE
UseAda(a) == a["use_ada"]

\* StyleSDFConfig.parse_options on the parsed command line a, from the
\* configuration cfg the base class has prepared.
ParseOptions(a, cfg) ==
    [enable_amp |-> cfg.enable_amp,
     data |-> [train |-> [dataset_type |-> "ImageDataset",
                          transform_kwargs |-> DataTransformKwargs(a)],
               val |-> [dataset_type |-> "ImageDataset",
                        transform_kwargs |-> DataTransformKwargs(a)]],
     full_pipeline |-> FALSE,
     models |-> Update(cfg.models,
                       [discriminator |-> DiscriminatorConfig(a, cfg),
                        generator |-> GeneratorConfig(a, cfg)]),
     loss |-> Update(cfg.loss, LossConfig(a)),
     grad_clip |-> [max_norm |-> 10, norm_type |-> 2],
     controllers |->
        LET c == Update(cfg.controllers,
                        [DatasetVisualizer |-> DatasetVisualizerConfig(a)])
        IN IF UseAda(a)
           THEN Update(c, [AdaAugController |-> AdaAugControllerConfig])
           ELSE c,
     aug |-> IF UseAda(a) THEN Update(cfg.aug, AdaAugConfig) ELSE cfg.aug,
     aug_kwargs |-> IF UseAda(a)
                    THEN Update(cfg.aug_kwargs, [impl |-> "cuda"])
                    ELSE cfg.aug_kwargs,
     metrics |-> Update(cfg.metrics, MetricsConfig(a))]

ApplyParseOptions ==
    /\ pureFn = "none"
    /\ \E o \in PassedOptions, k \in 0..MaxVary, ld \in 0..MaxLabelDim,
          ada \in BOOLEAN, cfg \in BaseConfigs :
          /\ input' = [args |-> Args(o, k, ld, ada), config |-> cfg]
          /\ output' = ParseOptions(Args(o, k, ld, ada), cfg)
    /\ pureFn' = "parse_options"
    /\ UNCHANGED nonPureVars

\* Two runs of parse_options whose command lines differ in option o only.
ApplyParseOptionsTwice ==
    /\ pureFn = "none"
    /\ \E o \in PassedOptions, k \in 1..MaxVary, ld \in 0..MaxLabelDim,
          ada \in BOOLEAN, cfg \in BaseConfigs :
          /\ input' = [differ |-> o, args |-> Args(o, 0, ld, ada),
                       other |-> Args(o, k, ld, ada), config |-> cfg]
          /\ output' = <<ParseOptions(Args(o, 0, ld, ada), cfg),
                         ParseOptions(Args(o, k, ld, ada), cfg)>>
    /\ pureFn' = "parse_options_twice"
    /\ UNCHANGED nonPureVars

\* The gradients compute_grad_penalty is applied to: for every sample the
\* gradient of the unscaled score sum, a vector of two components.
GradVectors == [1..2 -> (0 - MaxGrad)..MaxGrad]

GradBatches == UNION { [1..n -> GradVectors] : n \in 1..MaxSamples }

ApplyComputeGradPenalty ==
    /\ pureFn = "none"
    /\ \E grads \in GradBatches, scaler \in Scalers :
          /\ input' = [grads |-> grads, amp_scaler |-> scaler]
          /\ output' = ComputeGradPenalty(grads, scaler)
    /\ pureFn' = "compute_grad_penalty"
    /\ UNCHANGED nonPureVars

InitPure ==
    /\ PureOff
    /\ runner = DefaultRunner(1, 1, 0)
    /\ LossStart
    /\ MetricOff

NextPure ==
    \/ ApplyRealNum
    \/ ApplyKIDIsBetterThan
    \/ ApplySnapshotIsBetterThan
    \/ ApplyComputeGradPenalty
    \/ ApplyPreprocessImage
    \/ ApplyParseOptions
    \/ ApplyParseOptionsTwice

SpecPure == InitPure /\ [][NextPure]_vars

InitMetric ==
    /\ \E setup \in KIDSetups \cup SnapshotSetups :
          metric = setup[1] /\ loader = setup[2] /\ MetricStart(setup[3])
    /\ runner = DefaultRunner(1, 1, 0)
    /\ LossStart
    /\ PureOff

NextMetric ==
    \/ StartEvaluate
    \/ StartSave
    \/ \E r \in Replicas :
          \/ Barrier_Pass(r)
          \/ ExtractReal_Hit(r) \/ ExtractReal_Miss(r)
          \/ ExtractReal_Skip(r) \/ ExtractReal_Batch(r)
          \/ ExtractReal_Save(r)
          \/ ExtractFake_Start(r) \/ ExtractFake_Batch(r)
          \/ ExtractFake_Finish(r)
          \/ KIDEvaluate_Tail(r) \/ KIDSave(r)
          \/ Synthesize_Start(r) \/ Synthesize_Codes(r)
          \/ Synthesize_Unbound(r) \/ Synthesize_View(r)
          \/ Synthesize_Finish(r)
          \/ SnapEvaluate_Tail(r) \/ SnapSave(r)

SpecMetric == InitMetric /\ [][NextMetric]_vars

\* ------------------------------------------------- the loss specification
InitLoss ==
    /\ runner \in Runners
    /\ LossStart
    /\ MetricOff
    /\ PureOff

NextLoss ==
    \/ CallRunG \/ RunG_Enter \/ RunG_Step \/ RunG_Return
    \/ CallRunD \/ RunD_Enter \/ RunD_Step \/ RunD_Return
    \/ CallDLoss \/ DLoss_FakeG \/ DLoss_FakeD \/ DLoss_Finish
    \/ CallGLoss \/ GLoss_FakeD \/ GLoss_Finish

SpecLoss == InitLoss /\ [][NextLoss]_vars

\* =================================================================== claims
\* The forward passes of the run_G / run_D call under way.
MyCalls == SubSeq(calls, base + 1, Len(calls))

\* The rows the call under way splits: the latents of run_G, the images of
\* run_D.
InputRows == IF IsTensor(args.images) THEN args.images.rows ELSE latents.rows

\* The rows with 0-based indices lo .. hi - 1.
RowsBetween(xs, lo, hi) == [j \in 1..(hi - lo) |-> xs[lo + j]]

RECURSIVE ConcatInputs(_)
ConcatInputs(cs) ==
    IF cs = <<>> THEN <<>> ELSE cs[1].input \o ConcatInputs(Tail(cs))

\* What the network returned for key k in the forward pass c.
OutputOf(c, k) ==
    IF c.model = "G" THEN G_forward(c.input, c.label)[k]
    ELSE D_forward(c.input, c.label)[k]

RECURSIVE ConcatOutputs(_, _)
ConcatOutputs(cs, k) ==
    IF cs = <<>> THEN <<>>
    ELSE OutputOf(cs[1], k).rows \o ConcatOutputs(Tail(cs), k)

\* C1: when run_G or run_D returns (batch_size >= 1, split dividing it), the
\* network was called exactly `split` times, call i got the consecutive
\* slice [i*batch_size/split, (i+1)*batch_size/split) of the inputs, the
\* slices put end to end are the inputs in order, and every tensor-valued
\* result key is the concatenation of the per-call outputs in call order,
\* batch_size rows in all.
C1_BatchSplitting ==
    ret # NotReturned =>
        LET n == batch_size \div args.split
        IN /\ batch_size >= 1
           /\ batch_size % args.split = 0
           /\ Len(MyCalls) = args.split
           /\ \A i \in 1..Len(MyCalls) :
                 MyCalls[i].input = RowsBetween(InputRows, (i - 1) * n, i * n)
           /\ ConcatInputs(MyCalls) = InputRows
           /\ Len(InputRows) = batch_size
           /\ \A k \in DOMAIN ret :
                 IsTensor(ret[k]) =>
                    /\ ret[k].rows = ConcatOutputs(MyCalls, k)
                    /\ Len(ret[k].rows) = batch_size

\* run_G has returned from a batch of 4 split in 2 slices of 2.
C1_Witness ==
    /\ op = "run_G" /\ lpc = "done"
    /\ batch_size = 4 /\ args.split = 2
    /\ Len(calls) = 2
    /\ ret["image"].rows = <<1, 2, 3, 4>>

\* C2: a run_G / run_D call whose batch size is not a multiple of `split`
\* ends with an AssertionError, with no forward pass made, no latent code or
\* label sampled, and nothing returned.
C2_AssertBeforeForward ==
    (lpc \notin {"idle", "G_enter", "D_enter"}
       /\ batch_size % args.split # 0) =>
        /\ lpc = "raised"
        /\ err = "AssertionError"
        /\ Len(calls) = base
        /\ latents = None
        /\ labels = None
        /\ ret = NotReturned

\* run_G inside d_loss failed its assertion (3 is not a multiple of 2) on a
\* conditional generator.
C2_Witness ==
    /\ op = "d_loss" /\ stage = 2
    /\ err = "AssertionError"
    /\ batch_size = 3 /\ args.split = 2
    /\ runner.label_dim > 0

\* C3: in d_loss every generator forward runs unsynchronized and every
\* discriminator forward (the real batch first, the fake one last) runs with
\* the caller's sync flag; in g_loss the generator forwards run with the
\* caller's flag and the discriminator forward unsynchronized; with
\* sync = False nothing runs synchronized.
C3_SyncOnlyOptimized ==
    op \in {"d_loss", "g_loss"} =>
        /\ \A i \in 1..Len(calls) :
              /\ calls[i].sync =
                    IF calls[i].model = (IF op = "d_loss" THEN "D" ELSE "G")
                    THEN callerSync ELSE FALSE
              /\ ~callerSync => ~calls[i].sync
        /\ (op = "d_loss" /\ lpc = "done") =>
              /\ Len(calls) = runner.batch_split + 2
              /\ calls[1].model = "D"
              /\ calls[1].input = RealImages(runner.batch_size).rows
              /\ \A i \in 2..(Len(calls) - 1) : calls[i].model = "G"
              /\ calls[Len(calls)].model = "D"
              /\ calls[Len(calls)].input = locals.fake_results["image"].rows
        /\ (op = "g_loss" /\ lpc = "done") =>
              /\ Len(calls) = runner.batch_split + 1
              /\ \A i \in 1..(Len(calls) - 1) : calls[i].model = "G"
              /\ calls[Len(calls)].model = "D"

\* d_loss has finished with sync = True and a generator batch split in two.
C3_Witness ==
    /\ op = "d_loss" /\ lpc = "done"
    /\ callerSync
    /\ runner.batch_split = 2
    /\ calls[1].sync /\ ~calls[2].sync /\ ~calls[3].sync /\ calls[4].sync

\* The numerators (over the weight's denominator) of what a penalty adds to
\* each sample's loss.
Contribution(penalty, weight) ==
    [i \in 1..Len(penalty) |-> penalty[i] * weight[1]]

\* C11: when d_loss returns, compute_grad_penalty was called on the real
\* images exactly if r1_gamma > 0 and on the fake images exactly if
\* r2_gamma > 0, each at most once; the real images require gradients
\* exactly if r1_gamma > 0; a penalty whose gamma is 0 adds zero for every
\* sample; an enabled penalty is the (scaled) gradient penalty of its images
\* and enters the loss with weight gamma / 2.
C11_PenaltiesOnlyWhenEnabled ==
    (op = "d_loss" /\ lpc = "done") =>
        LET gp == locals.grad_penalty_calls
            called(x) == \E i \in 1..Len(gp) : gp[i] = x
            scaled(images) ==
                [i \in 1..Len(images.rows) |->
                    AmpScale(runner.amp_scaler,
                             SumSquares(D_grad(images)[i]))]
        IN /\ called("real") <=> runner.r1_gamma > 0
           /\ called("fake") <=> runner.r2_gamma > 0
           /\ \A i, j \in 1..Len(gp) : gp[i] = gp[j] => i = j
           /\ locals.real_requires_grad <=> runner.r1_gamma > 0
           /\ Len(locals.r1_penalty) = runner.batch_size
           /\ Len(locals.r2_penalty) = runner.batch_size
           /\ runner.r1_gamma = 0 =>
                 \A i \in 1..runner.batch_size :
                    Contribution(locals.r1_penalty, locals.r1_weight)[i] = 0
           /\ runner.r2_gamma = 0 =>
                 \A i \in 1..runner.batch_size :
                    Contribution(locals.r2_penalty, locals.r2_weight)[i] = 0
           /\ runner.r1_gamma > 0 =>
                 /\ locals.r1_weight = <<runner.r1_gamma, 2>>
                 /\ locals.r1_penalty = scaled(locals.real_images)
           /\ runner.r2_gamma > 0 =>
                 /\ locals.r2_weight = <<runner.r2_gamma, 2>>
                 /\ locals.r2_penalty = scaled(locals.fake_results["image"])

\* d_loss has returned with R1 enabled and R2 off under an enabled scaler:
\* one penalty call, on the real images, and a zero R2 term.
C11_Witness ==
    /\ op = "d_loss" /\ lpc = "done"
    /\ runner.r1_gamma = 1 /\ runner.r2_gamma = 0
    /\ runner.amp_scaler = Scaler(TRUE, 2)
    /\ locals.grad_penalty_calls = <<"real">>
    /\ locals.real_requires_grad
    /\ locals.r1_penalty = <<4, 10>>
    /\ locals.r2_penalty = <<0, 0>>

\* C17: every generator call of run_G gets label None exactly if label_dim
\* is 0; when label_dim > 0 every sample has a one-hot label of length
\* label_dim, and call i gets the labels of the index range of its latents.
C17_LabelDimZeroUnconditional ==
    \A i \in 1..Len(MyCalls) :
        MyCalls[i].model = "G" =>
            LET lo == (i - 1) * split_batch_size
                hi == i * split_batch_size
            IN /\ (MyCalls[i].label = None) <=> (runner.label_dim = 0)
               /\ MyCalls[i].input = RowsBetween(latents.rows, lo, hi)
               /\ runner.label_dim > 0 =>
                     /\ IsTensor(labels)
                     /\ Len(labels.rows) = batch_size
                     /\ \A j \in 1..batch_size :
                           /\ Len(labels.rows[j]) = runner.label_dim
                           /\ \E k \in 1..runner.label_dim :
                                 labels.rows[j] =
                                     [c \in 1..runner.label_dim |->
                                         IF c = k THEN 1 ELSE 0]
                     /\ MyCalls[i].label.rows
                           = RowsBetween(labels.rows, lo, hi)

\* run_G has returned from a conditional batch of 4 in 2 slices whose
\* halves carry different labels: the second call got the second half.
C17_Witness ==
    /\ op = "run_G" /\ lpc = "done"
    /\ runner.label_dim = 2 /\ batch_size = 4 /\ args.split = 2
    /\ labels.rows = <<<<1, 0>>, <<1, 0>>, <<0, 1>>, <<1, 0>>>>
    /\ calls[2].label.rows = <<<<0, 1>>, <<1, 0>>>>

\* ------------------------------------------------------- metric claims
\* The inception forward passes replica r made on real batches in this call.
RealForwards(r) ==
    { i \in 1..Len(forwards[r]) :
        forwards[r][i].model = "inception" /\ forwards[r][i].data = "real" }

\* The generator forward passes replica r made in this call.
GForwards(r) ==
    { i \in 1..Len(forwards[r]) : forwards[r][i].model = "G" }

\* Replica r is in KIDMetric.evaluate and extract_real_features is over.
RealReturned(r) ==
    /\ metric.class = "KID"
    /\ mop.kind = "evaluate"
    /\ realHit[r] # "unchecked"
    /\ mpc[r] # "real_loop"

\* The batches of a pass that belong to the replica's share.
OwnBatches ==
    { b \in 0..(loader.len - 1) :
        b * loader.batch_size <
          ReplicaNum(EffectiveRealNum(metric.real_num, loader.size)) }

\* C4: once extract_real_features is over, next(data_loader) was called
\* len(data_loader) times on a cache miss and not at all on a hit, so the
\* loader stands at its first batch again; only the batches with
\* batch_idx * batch_size < replica_num went through the inception model.
C4_WholePass ==
    \A r \in Replicas :
        /\ mpc[r] = "real_loop" => nextCalls[r] = idx[r]
        /\ \A i \in RealForwards(r) :
              forwards[r][i].codes[2] \in OwnBatches
        /\ RealReturned(r) =>
              /\ realHit[r] = "miss" => nextCalls[r] = loader.len
              /\ realHit[r] = "hit" => nextCalls[r] = 0
              /\ loaderPos[r] = 0
              /\ realHit[r] = "miss" =>
                    Cardinality(RealForwards(r)) = Cardinality(OwnBatches)

\* A replica finished a missed pass of two batches of which it dropped one.
C4_Witness ==
    \E r \in Replicas :
        /\ RealReturned(r)
        /\ mpc[r] = "fake_start"
        /\ realHit[r] = "miss"
        /\ loader.len = 2
        /\ nextCalls[r] = 2
        /\ Cardinality(RealForwards(r)) = 1

\* The files written in earlier calls.
WrittenBefore == { w.name : w \in { cacheWrites[i] : i \in 1..Len(cacheWrites) }
                            \ { x \in { cacheWrites[i] : i \in 1..Len(cacheWrites) } :
                                  x.call = "this" } }

\* C5: the inception model runs on real data only on a replica that found no
\* cache file; only the chief writes cache files, each once, after its pass;
\* a call whose file was written by an earlier call loads it and makes no
\* inception pass on real data; on a hit the chief holds the cached features
\* and every other replica None.
C5_RealFeatureCache ==
    /\ \A i \in 1..Len(cacheWrites) :
          /\ IsChief(cacheWrites[i].by)
          /\ \A j \in 1..Len(cacheWrites) :
                cacheWrites[i].name = cacheWrites[j].name => i = j
    /\ cacheFiles = { cacheWrites[i].name : i \in 1..Len(cacheWrites) }
    /\ \A r \in Replicas :
          /\ RealForwards(r) # {} => realHit[r] = "miss"
          /\ RealReturned(r) =>
                /\ cache_name \in WrittenBefore =>
                      realHit[r] = "hit" /\ RealForwards(r) = {}
                /\ IsChief(r) =>
                      /\ cache_name \in cacheFiles
                      /\ features[r].real =
                            Features("real", cache_name[1], cache_name[2])
                /\ ~IsChief(r) => features[r].real = NoFeatures

\* A second evaluate on the same data found the file the first one wrote:
\* every replica hit the cache and ran no inception pass on real data.
C5_Witness ==
    /\ metric.class = "KID" /\ mop.kind = "evaluate"
    /\ Len(cacheWrites) = 1
    /\ cacheWrites[1].call = "earlier"
    /\ cacheWrites[1].name = cache_name
    /\ loader.len > 0 /\ loader.size > 0
    /\ \A r \in Replicas :
          realHit[r] = "hit" /\ mpc[r] = "idle" /\ RealForwards(r) = {}

\* Replica r's evaluate is over.
EvaluateReturned(r) ==
    /\ mop.kind = "evaluate"
    /\ mpc[r] = "idle" \/ (mpc[r] = "barrier" /\ cont[r] = "idle")

\* C7: evaluate of either metric returns {name: value} on the chief and None
\* elsewhere; save on another replica than the chief writes nothing and
\* calls sync once; no assertion fails on a replica other than the chief.
C7_ChiefOnlyResults ==
    \A r \in Replicas :
        /\ EvaluateReturned(r) =>
              /\ IsChief(r) => result[r].t = "dict"
                                 /\ result[r].name = metric.name
              /\ ~IsChief(r) => result[r] = NoResult
        /\ (mop.kind = "save" /\ ~IsChief(r)) =>
              /\ outputs[r] = <<>>
              /\ result[r] = NoResult
              /\ mpc[r] # "save" => opSyncs[r] = 1
        /\ ~IsChief(r) => merr[r] # "AssertionError"

\* save of a KID result is over on every replica: the chief has written.
C7_Witness ==
    /\ metric.class = "KID" /\ mop.kind = "save" /\ mop.tb
    /\ \A r \in Replicas : mpc[r] = "idle"
    /\ outputs[0] = <<"log", "txt", "tensorboard">>
    /\ \A r \in Replicas \ {0} : outputs[r] = <<>> /\ opSyncs[r] = 1

\* extract_fake_features / synthesize is over on replica r.
FakeReturned(r) ==
    /\ mop.kind = "evaluate"
    /\ \/ mpc[r] \in {"eval_tail", "idle"}
       \/ mpc[r] = "barrier" /\ cont[r] \in {"eval_tail", "idle"}

\* C8: every generator forward of an evaluation runs in eval mode, and when
\* extract_fake_features / synthesize is over the generator is back in the
\* mode it had at entry.
C8_TrainingModeRestored ==
    \A r \in Replicas :
        /\ \A i \in GForwards(r) : ~forwards[r][i].training
        /\ FakeReturned(r) => training[r] = entryMode[r]

\* A generator that was training is training again after forward passes
\* made in eval mode.
C8_Witness ==
    \E r \in Replicas :
        /\ FakeReturned(r)
        /\ entryMode[r] /\ training[r]
        /\ GForwards(r) # {}

\* C18: as long as no replica fails, every replica calls sync() the same
\* number of times in an operation, 3 in KIDMetric.evaluate whether the cache
\* of real features hits or misses, 2 in GANSnapshotMultiView.evaluate, 1 in
\* save of either metric, and no replica waits at a barrier that a replica
\* which has already returned never reached.
C18_BarriersMatch ==
    ((\A q \in Replicas : merr[q] = "none") /\ mop.kind # "none") =>
        \A r \in Replicas :
            LET expected == IF mop.kind = "save" THEN 1
                            ELSE IF metric.class = "KID" THEN 3 ELSE 2
            IN
            /\ opSyncs[r] <= expected
            /\ arrived[r] = opSyncs[r]
            /\ mpc[r] = "idle" => opSyncs[r] = expected
            /\ mpc[r] = "barrier" =>
                  \A q \in Replicas :
                      mpc[q] = "idle" => arrived[q] >= arrived[r]

\* A KID evaluation is over on every replica after 3 sync() calls each, the
\* cache of real features having missed on one replica and hit on another.
C18_Witness ==
    /\ metric.class = "KID" /\ mop.kind = "evaluate"
    /\ \A q \in Replicas : merr[q] = "none"
    /\ \A r \in Replicas : mpc[r] = "idle" /\ opSyncs[r] = 3
    /\ \E r, q \in Replicas : realHit[r] = "hit" /\ realHit[q] = "miss"

\* synthesize is over on replica r: it returned, or it raised.
SynthEnded(r) ==
    /\ metric.class = "Snapshot"
    /\ mpc[r] = "raised" \/ FakeReturned(r)

\* C10: when synthesize is over on a replica, the generator was invoked
\* exactly 8 times for each of the replica's latent codes, with the same
\* code and label, at the 8 evenly spaced azimuthal angles from
\* azimuthal_start to azimuthal_end in increasing order, polar angle pi/2 and
\* the configured radius; the chief holds exactly latent_num * 8 images.
C10_EightViewsPerLatent ==
    \A r \in Replicas :
        SynthEnded(r) =>
            /\ Len(forwards[r]) = replica_latent_num * 8
            /\ \A j \in 0..(replica_latent_num - 1), k \in 1..8 :
                  LET f == forwards[r][8 * j + k]
                  IN /\ f.model = "G"
                     /\ f.codes = forwards[r][8 * j + 1].codes
                     /\ f.labels = forwards[r][8 * j + 1].labels
                     /\ f.azimuthal = 7 * AzimuthalStart
                                        + (k - 1) * (AzimuthalEnd - AzimuthalStart)
                     /\ k > 1 => forwards[r][8 * j + k - 1].azimuthal < f.azimuthal
                     /\ f.polar = "pi/2"
                     /\ f.radius = Radius
            /\ (IsChief(r) /\ FakeReturned(r)) =>
                  features[r].fake =
                     Features("images", metric.name, metric.num * 8)

\* -------------------------------------------------- pure-function claims
\* C6: the number of real images used is len(dataset) for a negative
\* real_num and min(real_num, len(dataset)) otherwise, never more than the
\* dataset holds; KID50K uses min(50000, N) real images, KID50KFull all N of
\* them when N <= 1000000, and both use 50000 fake images.
C6_RealNumCapped ==
    pureFn = "real_num" =>
        LET rn == input.self.real_num
            N == input.size
        IN /\ output <= N
           /\ rn < 0 => output = N
           /\ rn >= 0 => output = Min(rn, N)
           /\ input.self.class = "KID50K" =>
                 /\ output = Min(50000, N)
                 /\ input.self.fake_num = 50000
           /\ input.self.class = "KID50KFull" =>
                 /\ N <= 1000000 => output = N
                 /\ input.self.fake_num = 50000

\* KID50K on a dataset of 50001 images uses 50000 of them.
C6_Witness ==
    /\ pureFn = "real_num"
    /\ input.self.class = "KID50K"
    /\ input.size = 50001
    /\ output = 50000

\* C9: for its own name KIDMetric._is_better_than is True exactly when ref is
\* None or new < ref, so a tie is not better and two values are never each
\* better than the other; for another name it is None; the snapshot's
\* _is_better_than is always None.
C9_LowerIsBetter ==
    /\ pureFn = "kid_is_better_than" =>
          /\ input.metric_name = input.self_name =>
                /\ output \in {"True", "False"}
                /\ output = "True" <=>
                      (input.ref.none \/ input.new.v < input.ref.v)
                /\ (~input.ref.none /\ input.new.v = input.ref.v) =>
                      output = "False"
                /\ ~input.ref.none =>
                      ~(output = "True"
                        /\ KIDIsBetterThan(input.self_name, input.metric_name,
                                           input.ref, input.new) = "True")
          /\ input.metric_name # input.self_name => output = "None"
    /\ pureFn = "snapshot_is_better_than" => output = "None"

\* A tie on the metric's own name is judged not better.
C9_Witness ==
    /\ pureFn = "kid_is_better_than"
    /\ input.metric_name = input.self_name
    /\ ~input.ref.none
    /\ input.new.v = input.ref.v
    /\ output = "False"

\* C12: for every scale and both enabled states of the scaler, the penalty
\* compute_grad_penalty returns is, for every sample, the sum of the squares
\* of the gradient of the unscaled score sum with respect to the images.
C12_PenaltyScaleIndependent ==
    pureFn = "compute_grad_penalty" =>
        /\ Len(output) = Len(input.grads)
        /\ \A i \in 1..Len(input.grads) :
              output[i] = input.grads[i][1] * input.grads[i][1]
                          + input.grads[i][2] * input.grads[i][2]

\* An enabled scaler of scale 3 on two samples with non-zero gradients.
C12_Witness ==
    /\ pureFn = "compute_grad_penalty"
    /\ input.amp_scaler = Scaler(TRUE, 3)
    /\ input.grads = <<[j \in 1..2 |-> IF j = 1 THEN 1 ELSE 0 - 2],
                       [j \in 1..2 |-> 2]>>
    /\ output = <<5, 8>>

\* The smallest integer not below k / LodDen, for k >= 0.
CeilLod(k) == (k + LodDen - 1) \div LodDen

\* C13: for lod >= 0 and an image whose height and width are multiples of
\* 2^ceil(lod), preprocess_image raises nothing and returns the input's
\* height and width; for lod = 0 it returns the input unchanged; for a
\* non-integer lod the image is blended with weights 1 - alpha and alpha,
\* alpha = lod - floor(lod), strictly between 0 and 1.
C13_PreprocessKeepsResolution ==
    (pureFn = "preprocess_image" /\ input.lod >= 0
       /\ input.images.h % (2 ^ CeilLod(input.lod)) = 0
       /\ input.images.w % (2 ^ CeilLod(input.lod)) = 0) =>
        LET floor == input.lod \div LodDen
            alpha == input.lod - floor * LodDen
        IN /\ output.err = "none"
           /\ output.h = input.images.h
           /\ output.w = input.images.w
           /\ input.lod = 0 => output = input.images
           /\ input.lod % LodDen # 0 =>
                 /\ output.weights = <<LodDen - alpha, alpha>>
                 /\ 0 < alpha /\ alpha < LodDen
           /\ input.lod % LodDen = 0 => output.weights = <<>>

\* An 8 x 8 image at lod 2.5: pooled twice, blended half and half with the
\* next level, and brought back to 8 x 8.
C13_Witness ==
    /\ pureFn = "preprocess_image"
    /\ input.images.h = 8 /\ input.images.w = 8
    /\ input.lod = 2 * LodDen + 1
    /\ output.ops = <<"avg_pool2d", "avg_pool2d", "blend", "interpolate">>
    /\ output.h = 8 /\ output.w = 8

\* The options of the networks' sizes.
\* C14: two runs of parse_options whose command lines differ only in
\* --d_fmaps_factor, --g_fmaps_factor, --g_init_res or --d_mbstd_groups
\* produce different model configurations.
C14_NetworkOptionsMatter ==
    (/\ pureFn = "parse_options_twice"
     /\ input.differ \in {"d_fmaps_factor", "g_fmaps_factor", "g_init_res",
                          "d_mbstd_groups"}) =>
        output[1].models # output[2].models

\* C15: after parse_options, --resolution is the image size of the training
\* and validation data, the discriminator's resolution and the generator's
\* image and render resolutions; --d_lr, --d_beta_1, --d_beta_2 are the
\* discriminator optimizer's and --g_lr, --g_beta_1, --g_beta_2 the
\* generator optimizer's, and changing one of them changes nothing but that
\* optimizer; --num_points is the point sampler's and --num_importance the
\* generator's; --ray_start is dis_min and --ray_end dis_max.
C15_OptionsRouted ==
    /\ pureFn = "parse_options" =>
          LET a == input.args
              D == output.models["discriminator"]
              G == output.models["generator"]
          IN /\ output.data.train.transform_kwargs.image_size
                   = a["resolution"]
             /\ output.data.val.transform_kwargs.image_size = a["resolution"]
             /\ D.model.resolution = a["resolution"]
             /\ G.model.image_resolution = a["resolution"]
             /\ G.model.render_resolution = a["resolution"]
             /\ D.opt.base_lr = a["d_lr"]
             /\ D.opt.betas = <<a["d_beta_1"], a["d_beta_2"]>>
             /\ G.opt.base_lr = a["g_lr"]
             /\ G.opt.betas = <<a["g_beta_1"], a["g_beta_2"]>>
             /\ G.model.point_sampling_kwargs.num_points = a["num_points"]
             /\ G.model.num_importance = a["num_importance"]
             /\ G.model.point_sampling_kwargs.dis_min = a["ray_start"]
             /\ G.model.point_sampling_kwargs.dis_max = a["ray_end"]
    /\ pureFn = "parse_options_twice" =>
          LET without(cfg, net) ==
                  [cfg EXCEPT !.models[net].opt = [opt_type |-> "Adam"]]
          IN /\ input.differ \in {"d_lr", "d_beta_1", "d_beta_2"} =>
                   /\ without(output[1], "discriminator")
                         = without(output[2], "discriminator")
                   /\ output[1] # output[2]
             /\ input.differ \in {"g_lr", "g_beta_1", "g_beta_2"} =>
                   /\ without(output[1], "generator")
                         = without(output[2], "generator")
                   /\ output[1] # output[2]

\* A run with a --ray_end of its own: it is the point sampler's dis_max, and
\* dis_min is still --ray_start.
C15_Witness ==
    /\ pureFn = "parse_options"
    /\ input.args["ray_end"] = OptValue("ray_end", 1)
    /\ output.models["generator"].model.point_sampling_kwargs.dis_max
          = OptValue("ray_end", 1)
    /\ output.models["generator"].model.point_sampling_kwargs.dis_min
          = OptValue("ray_start", 0)

\* C16: after parse_options the augmentation type AdaAug and the
\* AdaAugController entry are configured exactly if use_ada is true; with
\* use_ada false, config.aug and config.aug_kwargs are what they were and
\* the controllers gain no AdaAugController entry.
C16_UseAdaDecides ==
    pureFn = "parse_options" =>
        /\ (/\ "aug_type" \in DOMAIN output.aug
            /\ output.aug["aug_type"] = "AdaAug"
            /\ "AdaAugController" \in DOMAIN output.controllers)
              <=> input.args["use_ada"]
        /\ input.args["use_ada"] =>
              /\ output.aug = Update(input.config.aug, AdaAugConfig)
              /\ output.controllers["AdaAugController"]
                    = AdaAugControllerConfig
        /\ ~input.args["use_ada"] =>
              /\ output.aug = input.config.aug
              /\ output.aug_kwargs = input.config.aug_kwargs
              /\ "AdaAugController" \notin DOMAIN output.controllers
              /\ \A c \in DOMAIN input.config.controllers :
                    output.controllers[c] = input.config.controllers[c]

\* A run with use_ada on a configuration that had another augmentation: the
\* type is now AdaAug and the controller is there.
C16_Witness ==
    /\ pureFn = "parse_options"
    /\ input.args["use_ada"]
    /\ "aug_type" \in DOMAIN input.config.aug
    /\ input.config.aug["aug_type"] = "NoAug"
    /\ output.aug["aug_type"] = "AdaAug"
    /\ output.aug_kwargs["impl"] = "cuda"
    /\ "AdaAugController" \in DOMAIN output.controllers

====
